---- MODULE Spec2Model ----
(***************************************************************************)
(* Cal Events Discovery: the client-side event retrieval and matching      *)
(* engine of App.tsx (synonym expansion, text match, locality heuristic,   *)
(* date window, category predicate, the filteredEvents pipeline) and the   *)
(* load state machine around it; and verifyEventUrls, the worker pool of   *)
(* scripts/updateEvents.ts that checks the URLs of a batch before it is    *)
(* published.                                                              *)
(*                                                                         *)
(* A JavaScript string is a sequence of one-character strings, so that     *)
(* toLowerCase, trim, split, includes and the \b regular expression are    *)
(* computed character by character as the runtime computes them.           *)
(* An instant is a whole number of hours since the epoch (UTC); the local  *)
(* zone is a fixed whole-hour offset east of UTC (no daylight saving).     *)
(***************************************************************************)
EXTENDS Integers, Sequences, FiniteSets, TLC

VARIABLES
    call,            \* the last application of a pure function: [fn, args, ret]
    loading,         \* App state `loading`: LoadingState
    allEvents,       \* App state `allEvents`: CalEvent[]
    sources,         \* App state `sources`: GroundingSource[]
    lastUpdated,     \* App state `lastUpdated`: number | null (0 models null)
    filters,         \* App state `filters`: SearchFilters
    filteredEvents,  \* the memoised useMemo result: [threw, value, at, tickAfter]
    fetch,           \* the number of fetchEventsFromGemini promises pending
    now,             \* the system clock, in hours since the epoch
    tz,              \* the system-local zone: hours east of UTC
    toVerify,        \* verifyEventUrls: its argument `events`
    results,         \* verifyEventUrls: `results`
    index,           \* verifyEventUrls: `index`
    verified,        \* verifyEventUrls: `verified`
    replaced,        \* verifyEventUrls: `replaced`
    workers,         \* verifyEventUrls: the worker() calls: [pc, i]
    verifyPc         \* verifyEventUrls: "none" | "start" | "awaiting" | "returned"

vars == <<call, loading, allEvents, sources, lastUpdated, filters,
          filteredEvents, fetch, now, tz, toVerify, results, index,
          verified, replaced, workers, verifyPc>>

verifyVars == <<toVerify, results, index, verified, replaced, workers,
                verifyPc>>

\* verifyEventUrls is not run.
verifyNotRun ==
    /\ toVerify = <<>>
    /\ results = <<>>
    /\ index = 0
    /\ verified = 0
    /\ replaced = 0
    /\ workers = <<>>
    /\ verifyPc = "none"

appVars == <<loading, allEvents, sources, lastUpdated, filters,
             filteredEvents, fetch, now, tz>>

(***************************************************************************)
(* Strings                                                                 *)
(***************************************************************************)

\* A string literal as a sequence of its characters.
Str(s) == [i \in 1..Len(s) |-> SubSeq(s, i, i)]

UpperCaseLetters == Str("ABCDEFGHIJKLMNOPQRSTUVWXYZ")

LowerCaseLetters == Str("abcdefghijklmnopqrstuvwxyz")

Digits == Str("0123456789")

Range(f) == {f[i] : i \in DOMAIN f}

Min(S) == CHOOSE x \in S : \A y \in S : x <= y

Max(S) == CHOOSE x \in S : \A y \in S : x >= y

\* String.prototype.toLowerCase on one character (ASCII letters).
LowerCaseOf ==
    [c \in Range(UpperCaseLetters) |->
        LowerCaseLetters[CHOOSE i \in 1..26 : UpperCaseLetters[i] = c]]

toLowerCaseChar(c) == IF c \in DOMAIN LowerCaseOf THEN LowerCaseOf[c] ELSE c

\* String.prototype.toLowerCase
toLowerCase(s) == [i \in 1..Len(s) |-> toLowerCaseChar(s[i])]

\* The characters \s matches and trim() strips (those the inputs use).
isWhitespace(c) == c \in {" ", "\t", "\n"}

\* The part of s from the first to the last of the positions `keep`.
trimTo(s, keep) ==
    IF keep = {} THEN <<>> ELSE SubSeq(s, Min(keep), Max(keep))

\* String.prototype.trim
trim(s) == trimTo(s, {i \in 1..Len(s) : ~isWhitespace(s[i])})

\* String.prototype.split(/\s+/): the pieces between the maximal runs of
\* whitespace; a run at either edge leaves an empty piece, and the empty
\* string splits into one empty piece.
RECURSIVE splitRest(_, _, _, _)
splitRest(s, i, word, out) ==
    IF i > Len(s) THEN Append(out, word)
    ELSE IF isWhitespace(s[i])
         THEN IF i > 1 /\ isWhitespace(s[i - 1])
              THEN splitRest(s, i + 1, word, out)
              ELSE splitRest(s, i + 1, <<>>, Append(out, word))
         ELSE splitRest(s, i + 1, Append(word, s[i]), out)

splitWhitespace(s) == splitRest(s, 1, <<>>, <<>>)

\* String.prototype.includes
includes(text, needle) ==
    \E i \in 0..(Len(text) - Len(needle)) :
        SubSeq(text, i + 1, i + Len(needle)) = needle

\* Array.prototype.includes
arrayIncludes(arr, x) == \E i \in 1..Len(arr) : arr[i] = x

\* Array.prototype.join(' '); null and undefined elements join as ''.
RECURSIVE joinSpace(_)
joinSpace(parts) ==
    IF Len(parts) = 0 THEN <<>>
    ELSE IF Len(parts) = 1 THEN parts[1]
    ELSE parts[1] \o <<" ">> \o joinSpace(Tail(parts))

\* The regular expression class \w.
WordChars ==
    Range(UpperCaseLetters) \cup Range(LowerCaseLetters)
        \cup Range(Digits) \cup {"_"}

isWordChar(c) == c \in WordChars

\* The assertion \b between position p and p + 1 of text (p in 0..Len):
\* exactly one of the two neighbours is a word character; beyond either
\* edge counts as a non-word character.
wordBoundary(text, p) ==
    LET before == p >= 1 /\ isWordChar(text[p])
        after  == p < Len(text) /\ isWordChar(text[p + 1])
    IN  before # after

\* new RegExp(`\\b${term}\\b`, 'i').test(text), for a term of letters.
wordBoundaryRegexTest(term, text) ==
    \E i \in 0..(Len(text) - Len(term)) :
        /\ wordBoundary(text, i)
        /\ \A k \in 1..Len(term) :
               toLowerCaseChar(text[i + k]) = toLowerCaseChar(term[k])
        /\ wordBoundary(text, i + Len(term))

(***************************************************************************)
(* The vocabulary tables                                                   *)
(***************************************************************************)

\* The entries of SEARCH_SYNONYMS, in insertion order (the order in which
\* Object.entries enumerates them).
SEARCH_SYNONYMS ==
    <<
    [key |-> Str("ai"),
     synonyms |-> <<Str("artificial intelligence"), Str("machine learning"),
                  Str("ml"), Str("deep learning"), Str("neural network")>>],
    [key |-> Str("artificial intelligence"),
     synonyms |-> <<Str("ai"), Str("machine learning"), Str("ml"),
                  Str("deep learning")>>],
    [key |-> Str("machine learning"),
     synonyms |-> <<Str("ml"), Str("ai"), Str("artificial intelligence"),
                  Str("deep learning")>>],
    [key |-> Str("ml"),
     synonyms |-> <<Str("machine learning"), Str("ai"),
                  Str("artificial intelligence")>>],
    [key |-> Str("tech"),
     synonyms |-> <<Str("technology"), Str("computer"), Str("software"),
                  Str("engineering"), Str("science & tech")>>],
    [key |-> Str("technology"),
     synonyms |-> <<Str("tech"), Str("computer"), Str("software"),
                  Str("engineering")>>],
    [key |-> Str("music"),
     synonyms |-> <<Str("concert"), Str("performance"), Str("jazz"),
                  Str("classical"), Str("orchestra"), Str("recital")>>],
    [key |-> Str("concert"),
     synonyms |-> <<Str("music"), Str("performance"), Str("show"),
                  Str("live")>>],
    [key |-> Str("sports"),
     synonyms |-> <<Str("athletics"), Str("game"), Str("match"),
                  Str("basketball"), Str("football"), Str("volleyball")>>],
    [key |-> Str("basketball"),
     synonyms |-> <<Str("sports"), Str("game"), Str("hoops"),
                  Str("cal bears")>>],
    [key |-> Str("football"),
     synonyms |-> <<Str("sports"), Str("game"), Str("cal bears")>>],
    [key |-> Str("lecture"),
     synonyms |-> <<Str("talk"), Str("presentation"), Str("seminar"),
                  Str("speaker"), Str("academic")>>],
    [key |-> Str("talk"),
     synonyms |-> <<Str("lecture"), Str("presentation"), Str("seminar"),
                  Str("speaker")>>],
    [key |-> Str("workshop"),
     synonyms |-> <<Str("class"), Str("training"), Str("hands-on"),
                  Str("session")>>],
    [key |-> Str("art"),
     synonyms |-> <<Str("arts"), Str("exhibition"), Str("gallery"),
                  Str("museum"), Str("visual")>>],
    [key |-> Str("arts"),
     synonyms |-> <<Str("art"), Str("exhibition"), Str("gallery"),
                  Str("performance"), Str("theater"), Str("theatre")>>],
    [key |-> Str("theater"),
     synonyms |-> <<Str("theatre"), Str("play"), Str("drama"),
                  Str("performance"), Str("arts")>>],
    [key |-> Str("theatre"),
     synonyms |-> <<Str("theater"), Str("play"), Str("drama"),
                  Str("performance"), Str("arts")>>],
    [key |-> Str("film"),
     synonyms |-> <<Str("movie"), Str("cinema"), Str("screening")>>],
    [key |-> Str("movie"),
     synonyms |-> <<Str("film"), Str("cinema"), Str("screening")>>],
    [key |-> Str("health"),
     synonyms |-> <<Str("wellness"), Str("medical"), Str("healthcare"),
                  Str("public health")>>],
    [key |-> Str("wellness"),
     synonyms |-> <<Str("health"), Str("mental health"), Str("self-care")>>],
    [key |-> Str("career"),
     synonyms |-> <<Str("job"), Str("employment"), Str("professional"),
                  Str("networking"), Str("recruiting")>>],
    [key |-> Str("job"),
     synonyms |-> <<Str("career"), Str("employment"), Str("hiring"),
                  Str("internship")>>],
    [key |-> Str("diversity"),
     synonyms |-> <<Str("dei"), Str("inclusion"), Str("equity"),
                  Str("multicultural")>>],
    [key |-> Str("dei"),
     synonyms |-> <<Str("diversity"), Str("equity"), Str("inclusion")>>]
    >>

\* The properties every object literal inherits from Object.prototype: a
\* lookup SEARCH_SYNONYMS[name] of one of them finds a function or an
\* object, not undefined.
ObjectPrototypeKeys ==
    {Str("constructor"), Str("__proto__"), Str("hasOwnProperty"),
     Str("isPrototypeOf"), Str("propertyIsEnumerable"),
     Str("toLocaleString"), Str("toString"), Str("valueOf"),
     Str("__defineGetter__"), Str("__defineSetter__"),
     Str("__lookupGetter__"), Str("__lookupSetter__")}

\* Short terms that only match as whole words.
WHOLE_WORD_ONLY ==
    {Str("ai"), Str("ml"), Str("ar"), Str("vr"), Str("it"), Str("cs")}

\* Berkeley/campus location substrings.
BERKELEY_LOCATIONS ==
    <<Str("berkeley"), Str("uc berkeley"), Str("cal "),
                  Str("memorial stadium"), Str("haas pavilion"),
                  Str("edwards stadium"), Str("evans diamond"),
                  Str("hearst"), Str("recreational sports facility"),
                  Str("rsf"), Str("zellerbach"), Str("wheeler"),
                  Str("dwinelle"), Str("soda hall"), Str("cory hall"),
                  Str("doe library"), Str("moffitt"), Str("bancroft"),
                  Str("sproul"), Str("mlk student union"),
                  Str("california memorial"), Str("greek theatre"),
                  Str("hearst greek")>>

Categories ==
    <<Str("All"), Str("Academic"), Str("Arts"), Str("Sports"),
      Str("Science & Tech"), Str("Student Life")>>

(***************************************************************************)
(* Values                                                                  *)
(*                                                                         *)
(* A CalEvent is a record of its nine fields plus `nulls`, the set of the  *)
(* field names whose value in the loaded JSON is null or absent (the field *)
(* itself then holds an empty value that nothing reads).                   *)
(* A call that can throw yields [threw, value]: Return(v) or Throw.        *)
(***************************************************************************)

Return(v) == [threw |-> FALSE, value |-> v]

\* A TypeError raised by the runtime.
Throw == [threw |-> TRUE, value |-> <<>>]

isNullish(event, field) == field \in event.nulls

(***************************************************************************)
(* Synonym expansion                                                       *)
(***************************************************************************)

\* The value of the property lookup SEARCH_SYNONYMS[name]: the synonyms of
\* an own key, an inherited member of Object.prototype, or undefined.
synonymsLookup(name) ==
    IF \E i \in 1..Len(SEARCH_SYNONYMS) : SEARCH_SYNONYMS[i].key = name
    THEN [kind |-> "own",
          synonyms |-> SEARCH_SYNONYMS[
              CHOOSE i \in 1..Len(SEARCH_SYNONYMS) :
                  SEARCH_SYNONYMS[i].key = name].synonyms]
    ELSE IF name \in ObjectPrototypeKeys
         THEN [kind |-> "inherited", synonyms |-> <<>>]
         ELSE [kind |-> "undefined", synonyms |-> <<>>]

\* Object.entries(SEARCH_SYNONYMS).forEach(...) from entry i on: push the
\* synonyms of every key that is one of the query words or the whole query.
RECURSIVE pushMatchingEntries(_, _, _, _)
pushMatchingEntries(terms, i, queryWords, normalized) ==
    IF i > Len(SEARCH_SYNONYMS) THEN terms
    ELSE LET key == SEARCH_SYNONYMS[i].key
             synonyms == SEARCH_SYNONYMS[i].synonyms
         IN  IF arrayIncludes(queryWords, key) \/ key = normalized
             THEN pushMatchingEntries(terms \o synonyms, i + 1,
                                      queryWords, normalized)
             ELSE pushMatchingEntries(terms, i + 1, queryWords, normalized)

\* [...new Set(terms)]: the first occurrence of each term, in order.
RECURSIVE removeDuplicates(_, _)
removeDuplicates(terms, out) ==
    IF terms = <<>> THEN out
    ELSE removeDuplicates(Tail(terms),
                          IF arrayIncludes(out, Head(terms)) THEN out
                          ELSE Append(out, Head(terms)))

\* expandNormalized as it would be if the terms stopped at the query
\* itself and no synonym were pushed.
expandNormalizedWithoutSynonyms(normalized, found) ==
    IF found.kind = "inherited" THEN Throw
    ELSE Return(<<normalized>>)

\* The body of expandSearchQuery from `const terms = [normalized]` on,
\* `found` being the value of SEARCH_SYNONYMS[normalized].  A truthy
\* `found` is spread into terms.push(...): the synonyms of an own key are
\* pushed, an inherited member of Object.prototype is not iterable and the
\* spread throws.
expandNormalized(normalized, found) ==
    IF found.kind = "inherited" THEN Throw
    ELSE Return(removeDuplicates(
             pushMatchingEntries(
                 IF found.kind = "own" THEN <<normalized>> \o found.synonyms
                 ELSE <<normalized>>,
                 1, splitWhitespace(normalized), normalized),
             <<>>))

\* The lookup SEARCH_SYNONYMS[normalized] and what follows it.
expandLookedUp(normalized) ==
    expandNormalized(normalized, synonymsLookup(normalized))

\* expandSearchQuery(query)
expandSearchQuery(query) == expandLookedUp(trim(toLowerCase(query)))

(***************************************************************************)
(* Text match                                                              *)
(***************************************************************************)

\* The field as join(' ') and `event.tags || []` take it: empty when null
\* or absent.
orEmpty(event, field) == IF isNullish(event, field) THEN <<>> ELSE event[field]

\* The searchable text as it would be with the location searched too.
searchableTextWithLocation(event) ==
    toLowerCase(joinSpace(
        <<orEmpty(event, "title"), orEmpty(event, "description"),
          orEmpty(event, "organizer"), orEmpty(event, "location")>>
        \o orEmpty(event, "tags")))

\* [event.title, event.description, event.organizer, ...(event.tags || [])]
\*     .join(' ').toLowerCase()
searchableText(event) ==
    toLowerCase(joinSpace(
        <<orEmpty(event, "title"), orEmpty(event, "description"),
          orEmpty(event, "organizer")>> \o orEmpty(event, "tags")))

\* termMatches as it would be without the whole-word guard: every term is
\* looked for as a substring.
termMatchesAsSubstring(term, text) == includes(text, term)

\* The callback of searchTerms.some(...) for one term of the list, over
\* the lowercase searchable text.
termMatches(term, text) ==
    IF term \in WHOLE_WORD_ONLY
    THEN wordBoundaryRegexTest(term, text)
    ELSE includes(text, term)

\* searchTerms.some(...) over the searchable text of the event.
someTermMatches(searchTerms, text) ==
    \E i \in 1..Len(searchTerms) : termMatches(searchTerms[i], text)

\* eventMatchesSearch(event, searchTerms)
eventMatchesSearch(event, searchTerms) ==
    someTermMatches(searchTerms, searchableText(event))

(***************************************************************************)
(* Locality heuristic                                                      *)
(***************************************************************************)

\* event.tags?.some(tag => tag.toLowerCase().includes('sport')), taken for
\* its truthiness (undefined for absent tags is falsy).
isSportsEvent(event) ==
    /\ ~isNullish(event, "tags")
    /\ \E i \in 1..Len(event.tags) :
           includes(toLowerCase(event.tags[i]), Str("sport"))

\* BERKELEY_LOCATIONS.some(loc => location.includes(loc))
someLocationIn(location) ==
    \E i \in 1..Len(BERKELEY_LOCATIONS) :
        includes(location, BERKELEY_LOCATIONS[i])

\* isHomeGame as it would be if the location were compared as written,
\* not lowercased, with the lowercase allowlist.
isHomeGameCaseSensitive(event) ==
    IF ~isSportsEvent(event) THEN Return(TRUE)
    ELSE IF isNullish(event, "location") THEN Throw
    ELSE Return(someLocationIn(event.location))

\* isHomeGame(event).  event.location.toLowerCase() throws a TypeError when
\* the location of a sports event is null or absent.
isHomeGame(event) ==
    IF ~isSportsEvent(event) THEN Return(TRUE)
    ELSE IF isNullish(event, "location") THEN Throw
    ELSE Return(someLocationIn(toLowerCase(event.location)))

(***************************************************************************)
(* Category predicate                                                      *)
(***************************************************************************)

\* matchesCategory as it would be without the 'All' wildcard.
matchesCategoryWithoutWildcard(event, category) ==
    \/ /\ ~isNullish(event, "tags")
       /\ \E i \in 1..Len(event.tags) :
              includes(toLowerCase(event.tags[i]), toLowerCase(category))
    \/ /\ ~isNullish(event, "tags")
       /\ arrayIncludes(event.tags, category)

\* matchesCategory as it would be if the tag were compared as written, not
\* lowercased, with the lowercase category.
matchesCategoryCaseSensitive(event, category) ==
    \/ category = Str("All")
    \/ /\ ~isNullish(event, "tags")
       /\ \E i \in 1..Len(event.tags) :
              includes(event.tags[i], toLowerCase(category))
    \/ /\ ~isNullish(event, "tags")
       /\ arrayIncludes(event.tags, category)

\* const matchesCategory = filters.category === 'All' || tags?.some(t =>
\*     t.toLowerCase().includes(category.toLowerCase())) ||
\*     tags?.includes(category), taken for its truthiness.
matchesCategory(event, category) ==
    \/ category = Str("All")
    \/ /\ ~isNullish(event, "tags")
       /\ \E i \in 1..Len(event.tags) :
              includes(toLowerCase(event.tags[i]), toLowerCase(category))
    \/ /\ ~isNullish(event, "tags")
       /\ arrayIncludes(event.tags, category)

(***************************************************************************)
(* Dates                                                                   *)
(*                                                                         *)
(* A Date holds its time value, here in hours since the epoch (UTC), or    *)
(* NaN for an Invalid Date.  `zone` is the local offset, in hours east of  *)
(* UTC: local wall-clock hours are the time value plus zone.               *)
(***************************************************************************)

HoursPerDay == 24

\* The time value of an Invalid Date; every comparison with it is false.
NaN == -1

\* Days since the epoch of the civil date year-month-date (MakeDay).
daysFromCivil(year, month, date) ==
    LET y   == IF month <= 2 THEN year - 1 ELSE year
        era == y \div 400
        yoe == y - era * 400
        mp  == (month + 9) % 12
        doy == (153 * mp + 2) \div 5 + date - 1
        doe == yoe * 365 + yoe \div 4 - yoe \div 100 + doy
    IN  era * 146097 + doe - 719468

\* The civil date of a day number (YearFromTime, MonthFromTime,
\* DateFromTime).
civilFromDays(days) ==
    LET z   == days + 719468
        era == z \div 146097
        doe == z - era * 146097
        yoe == (doe - doe \div 1460 + doe \div 36524 - doe \div 146096)
                   \div 365
        doy == doe - (365 * yoe + yoe \div 4 - yoe \div 100)
        mp  == (5 * doy + 2) \div 153
        d   == doy - (153 * mp + 2) \div 5 + 1
        m   == IF mp < 10 THEN mp + 3 ELSE mp - 9
        y   == yoe + era * 400
    IN  [year |-> IF m <= 2 THEN y + 1 ELSE y, month |-> m, date |-> d]

isDigit(c) == c \in Range(Digits)

\* The number a run of digits s[from..to] denotes.
RECURSIVE digitsValue(_, _, _)
digitsValue(s, from, to) ==
    IF from > to THEN 0
    ELSE 10 * digitsValue(s, from, to - 1)
             + (CHOOSE n \in 0..9 : Digits[n + 1] = s[to])

\* The days of a month.
daysInMonth(year, month) ==
    IF month = 2
    THEN IF year % 4 = 0 /\ (year % 100 # 0 \/ year % 400 = 0) THEN 29
         ELSE 28
    ELSE IF month \in {4, 6, 9, 11} THEN 30 ELSE 31

\* The time value of midnight UTC of year-month-date, NaN when that is no
\* day of the calendar.
utcMidnight(year, month, date) ==
    IF month \in 1..12 /\ date \in 1..daysInMonth(year, month)
    THEN daysFromCivil(year, month, date) * HoursPerDay
    ELSE NaN

\* new Date(string): a date-only form YYYY-MM-DD is midnight UTC of that
\* day; a string that is no date at all is an Invalid Date.  (Date-time
\* forms and the engines' legacy formats are not among the inputs.)
dateParse(s) ==
    IF /\ Len(s) = 10
       /\ s[5] = "-" /\ s[8] = "-"
       /\ \A i \in {1, 2, 3, 4, 6, 7, 9, 10} : isDigit(s[i])
    THEN utcMidnight(digitsValue(s, 1, 4), digitsValue(s, 6, 7),
                     digitsValue(s, 9, 10))
    ELSE NaN

\* The local day number of a time value.
localDay(t, zone) == (t + zone) \div HoursPerDay

\* Date.prototype.setHours(0, 0, 0, 0): local midnight of the same local day.
setHoursZero(t, zone) == localDay(t, zone) * HoursPerDay - zone

\* Date.prototype.getDate(): the local day of the month.
getDate(t, zone) == civilFromDays(localDay(t, zone)).date

\* The day number of the first day of a civil date's month.
firstOfMonth(civil) == daysFromCivil(civil.year, civil.month, 1)

\* Date.prototype.setDate(n): day n of t's local month, at t's local time
\* of day; n past the month's end runs on into the next month.
setDate(t, n, zone) ==
    (firstOfMonth(civilFromDays(localDay(t, zone))) + n - 1) * HoursPerDay
        + ((t + zone) % HoursPerDay) - zone

\* Date.prototype.toDateString(): the local calendar day ("Mon Jun 10
\* 2024"), as its year, month and date; all zero stands for the string
\* "Invalid Date".
toDateString(t, zone) ==
    IF t = NaN THEN [year |-> 0, month |-> 0, date |-> 0]
    ELSE civilFromDays(localDay(t, zone))

\* a >= b and a <= b on the time values of two Dates.
dateGe(a, b) == a # NaN /\ b # NaN /\ a >= b

dateLe(a, b) == a # NaN /\ b # NaN /\ a <= b

\* inWeek as it would be with the comparisons turned round and negated:
\* !(eventDate < today) && !(eventDate > nextWeek).
inWeekNegated(eventDate, today, nextWeek) ==
    /\ ~(eventDate # NaN /\ today # NaN /\ eventDate < today)
    /\ ~(eventDate # NaN /\ nextWeek # NaN /\ eventDate > nextWeek)

\* eventDate >= today && eventDate <= nextWeek
inWeek(eventDate, today, nextWeek) ==
    dateGe(eventDate, today) /\ dateLe(eventDate, nextWeek)

\* dateWindow as it would be if 'month' and 'weekend' had an evaluator,
\* that of 'week'.
dateWindowReservedAsWeek(eventDate, today, dateRange, read2, zone) ==
    IF dateRange = "today"
    THEN toDateString(eventDate, zone) = toDateString(today, zone)
    ELSE IF dateRange \in {"week", "month", "weekend"}
    THEN inWeek(eventDate, today,
                setDate(read2, getDate(today, zone) + 7, zone))
    ELSE TRUE

\* dateWindow as it would be if 'upcoming' kept the events from today on.
dateWindowUpcomingFromToday(eventDate, today, dateRange, read2, zone) ==
    IF dateRange = "today"
    THEN toDateString(eventDate, zone) = toDateString(today, zone)
    ELSE IF dateRange = "week"
    THEN inWeek(eventDate, today,
                setDate(read2, getDate(today, zone) + 7, zone))
    ELSE IF dateRange = "upcoming"
    THEN dateGe(eventDate, today)
    ELSE TRUE

\* The date filter once `eventDate` and `today` are set.
dateWindow(eventDate, today, dateRange, read2, zone) ==
    IF dateRange = "today"
    THEN toDateString(eventDate, zone) = toDateString(today, zone)
    ELSE IF dateRange = "week"
    THEN inWeek(eventDate, today,
                setDate(read2, getDate(today, zone) + 7, zone))
    ELSE TRUE

\* The date filter of the filteredEvents callback.  `read1` is the clock
\* at `const today = new Date()`, `read2` the clock at `const nextWeek =
\* new Date()`; any dateRange other than 'today' and 'week' leaves
\* matchesDate true.
matchesDate(event, dateRange, read1, read2, zone) ==
    dateWindow(dateParse(event.date), setHoursZero(read1, zone), dateRange,
               read2, zone)

(***************************************************************************)
(* The filter pipeline                                                     *)
(***************************************************************************)

\* matchesSearch = eventMatchesSearch(event, expandedTerms), or the
\* TypeError of expandSearchQuery.
matchExpanded(event, expandedTerms) ==
    IF expandedTerms.threw THEN Throw
    ELSE Return(eventMatchesSearch(event, expandedTerms.value))

\* The search filter from `if (searchQuery)` on, searchQuery being the
\* trimmed query: the empty string is falsy and matchesSearch stays true.
searchTrimmed(event, searchQuery) ==
    IF searchQuery = <<>> THEN Return(TRUE)
    ELSE matchExpanded(event, expandSearchQuery(searchQuery))

\* matchesSearch as it would be without the trim and the guard: the
\* query as typed is the one term handed to the text match.
matchesSearchWithoutGuard(event, searchQuery) ==
    matchExpanded(event, Return(<<toLowerCase(searchQuery)>>))

\* The search filter of the filteredEvents callback: skipped when the
\* trimmed query is empty, else expansion followed by the text match.
matchesSearch(event, searchQuery) ==
    searchTrimmed(event, trim(searchQuery))

\* return matchesCategory && matchesDate && matchesSearch && isLocalEvent,
\* or the TypeError one of them raised.
allFour(category, date, search, isLocalEvent) ==
    IF search.threw \/ isLocalEvent.threw THEN Throw
    ELSE Return(category /\ date /\ search.value /\ isLocalEvent.value)

\* The callback of allEvents.filter(...) for one event: the four values
\* are all computed (none short-circuits another), then and-ed.
filterCallback(event, f, read1, read2, zone) ==
    allFour(matchesCategory(event, f.category),
            matchesDate(event, f.dateRange, read1, read2, zone),
            matchesSearch(event, f.searchQuery),
            isHomeGame(event))

\* The k-th reading of the clock during one pass that starts at `at`: the
\* clock moves on by one hour after `tickAfter` readings.  The callback
\* reads the clock twice per event.
clockRead(at, tickAfter, k) == IF k > tickAfter THEN at + 1 ELSE at

\* Array.prototype.filter from index i on: the events whose callback is
\* truthy, in order; a callback that throws ends the pass.
RECURSIVE filterFrom(_, _, _, _, _, _, _)
RECURSIVE filterStep(_, _, _, _, _, _, _, _)

\* filterStep as it would be if a kept event were put in front of the
\* result (unshift in place of push).
filterStepPrepending(events, i, out, f, at, tickAfter, zone, keep) ==
    IF keep.threw THEN Throw
    ELSE filterFrom(events, i + 1,
                    IF keep.value THEN <<events[i]>> \o out ELSE out,
                    f, at, tickAfter, zone)

\* filterStep as it would be if a dropped event were spliced out of the
\* array being walked: the event after it moves into its place, is never
\* examined and stays.
filterStepSplicing(events, i, out, f, at, tickAfter, zone, keep) ==
    IF keep.threw THEN Throw
    ELSE IF keep.value
    THEN filterFrom(events, i + 1, Append(out, events[i]),
                    f, at, tickAfter, zone)
    ELSE IF i < Len(events)
    THEN filterFrom(events, i + 2, Append(out, events[i + 1]),
                    f, at, tickAfter, zone)
    ELSE filterFrom(events, i + 1, out, f, at, tickAfter, zone)

\* The pass from index i on.
filterFrom(events, i, out, f, at, tickAfter, zone) ==
    IF i > Len(events) THEN Return(out)
    ELSE filterStep(events, i, out, f, at, tickAfter, zone,
                    filterCallback(events[i], f,
                                   clockRead(at, tickAfter, 2 * i - 1),
                                   clockRead(at, tickAfter, 2 * i), zone))

\* One step of the pass: event i is kept or dropped as its callback says.
filterStep(events, i, out, f, at, tickAfter, zone, keep) ==
    IF keep.threw THEN Throw
    ELSE filterFrom(events, i + 1,
                    IF keep.value THEN Append(out, events[i]) ELSE out,
                    f, at, tickAfter, zone)

\* The value useMemo keeps: the result of the pass and its clock.
memoised(result, at, tickAfter) ==
    [threw |-> result.threw, value |-> result.value,
     at |-> at, tickAfter |-> tickAfter]

\* The useMemo computation of filteredEvents, with the clock of the pass.
computeFilteredEvents(events, f, at, tickAfter, zone) ==
    memoised(filterFrom(events, 1, <<>>, f, at, tickAfter, zone),
             at, tickAfter)

(***************************************************************************)
(* Inputs                                                                  *)
(***************************************************************************)

Strs(names) == [i \in 1..Len(names) |-> Str(names[i])]

\* A CalEvent with every field present.
CalEvent(id, title, organizer, date, location, description, tags) ==
    [id |-> Str(id), title |-> Str(title), organizer |-> Str(organizer),
     date |-> Str(date), time |-> Str("6pm"), location |-> Str(location),
     description |-> Str(description), tags |-> Strs(tags),
     url |-> Str("https://events.berkeley.edu/") \o Str(id),
     nulls |-> {}]

\* The same event with `field` null or absent in the JSON.
without(event, field) ==
    [event EXCEPT ![field] = <<>>, !.nulls = @ \cup {field}]

AwayGame ==
    CalEvent("1", "Big Game", "Cal Athletics", "2024-06-05",
             "Stanford, CA", "Football on the road", <<"Sports">>)

PolicyLecture ==
    CalEvent("2", "AI Policy Lecture", "CDSS", "2024-06-11",
             "Berkeley", "Constructor theory and the law", <<"Academic">>)

ArtShow ==
    CalEvent("3", "Painting Exhibition", "BAMPFA", "2024-06-09",
             "Berkeley", "Works on paper", <<"Arts">>)

HomeGame ==
    CalEvent("4", "Cal Basketball", "Cal Athletics", "2024-06-10",
             "Haas Pavilion, Berkeley, CA", "First home game", <<"Sports">>)

TrainingSession ==
    CalEvent("5", "Training Session", "", "2024-06-17", "Wheeler Hall",
             "", <<>>)

EthicsTalk ==
    CalEvent("6", "AI Ethics Talk", "", "2024-06-18", "Soda Hall", "",
             <<"Science and Technology">>)

DeepLearning ==
    CalEvent("7", "Reading Group", "", "2024-06-16", "Cory Hall",
             "deep learning models", <<"Science & Tech", "Academic">>)

LocalArena ==
    CalEvent("8", "Club Match", "IT Services", "TBD",
             "Local Arena, Palo Alto", "", <<"Intramural sports">>)

AiLab ==
    CalEvent("9", "Open House", "", "", "AI Lab", "", <<"AI", "arts">>)

Untagged == without(CalEvent("10", "Jazz Night", "", "2024-07-05",
                              "Stanford, CA", "smart casual", <<>>), "tags")

\* Events of a parsed events.json in which a field is null or absent.
NoLocationGame == without(HomeGame, "location")

NoLocationTalk == without(PolicyLecture, "location")

NoTitleTalk == without(PolicyLecture, "title")

\* Batches as JSON.parse hands them over, with null or absent fields.
ParsedBatchPool ==
    {<<NoTitleTalk, Untagged, NoLocationTalk>>,
     <<PolicyLecture, NoLocationGame>>,
     <<NoLocationGame, PolicyLecture>>}

\* The events the pure functions are applied to.
EventPool ==
    {AwayGame, PolicyLecture, ArtShow, HomeGame, TrainingSession, EthicsTalk,
     DeepLearning, LocalArena, AiLab, Untagged}

\* The search box's contents.
QueryPool ==
    {Str(""), Str("  "), Str("ai"), Str("AI"), Str(" Ai "), Str("ml"),
     Str("machine learning"), Str("Machine  Learning"), Str("smart"),
     Str("art"), Str("ai music"), Str("music AI"), Str("jazz concert"),
     Str("art arts"), Str("deep learning"), Str("ai\tart"),
     Str("training"), Str("it"), Str("constructor"), Str("policy")}

\* Term lists handed to eventMatchesSearch.
TermsPool ==
    {Strs(<<"ai">>), Strs(<<"it">>), Strs(<<"ar">>), Strs(<<"training">>),
     Strs(<<"deep learning">>), Strs(<<"jazz", "ai">>),
     Strs(<<"ml", "machine learning">>), Strs(<<"lab">>),
     Strs(<<"hall", "6pm">>), Strs(<<"">>), <<>>}

\* Categories handed to the category predicate: the buttons' labels and
\* near misses of them.
CategoryPool ==
    Range(Categories) \cup {Str("all"), Str("Science"), Str("sports")}

\* The values of SearchFilters.dateRange.
DateRangeValues == {"upcoming", "today", "week", "month", "weekend"}

\* The values the DateRanges buttons set.
DateRanges == {"upcoming", "today", "week"}

\* Local zones, in hours east of UTC.
ZonePool == {-8, -7, 0, 1, 9}

\* Local wall-clock days and hours of the clock readings.
ClockDays == {Str("2024-06-10"), Str("2024-06-28")}

ClockHours == {0, 1, 12, 23}

\* The `date` fields handed to the date filter.
DatePool ==
    {Str("2024-06-09"), Str("2024-06-10"), Str("2024-06-11"),
     Str("2024-06-16"), Str("2024-06-17"), Str("2024-06-18"),
     Str("2024-06-28"), Str("2024-07-05"), Str("2024-07-06"),
     Str("TBD"), Str("")}

\* The instant at which the local clock of `zone` shows `hour` o'clock on
\* the day written `day` (YYYY-MM-DD).
localInstant(day, hour, zone) == dateParse(day) + hour - zone

\* The events of the snapshots the client loads.
SnapshotEvents == {AwayGame, PolicyLecture, ArtShow, HomeGame}

\* The longest batch, but for EndToEndBatch.
MaxBatch == 2

EndToEndBatch == <<AwayGame, PolicyLecture, ArtShow>>

\* A batch whose first event has a date that does not parse.
UndatedBatch == <<AiLab, HomeGame>>

\* The batches the pipeline filters.
BatchPool ==
    UNION {[1..n -> SnapshotEvents] : n \in 0..MaxBatch} \cup {EndToEndBatch, UndatedBatch}

\* Filter states with a dateRange that SearchFilters allows and no button
\* sets.
ReservedFiltersPool ==
    [dateRange : DateRangeValues \ DateRanges,
     category : {Str("All")},
     searchQuery : {Str(""), Str("ai")}]

\* The filter states the pipeline is applied with.
FiltersPool ==
    [dateRange : DateRanges,
     category : {Str("All"), Str("Sports"), Str("Arts")},
     searchQuery : {Str(""), Str("  "), Str("ai"), Str("game"),
                    Str("constructor")}]
    \cup ReservedFiltersPool

FilterZones == {-7, 1}

\* The local hour of 2024-06-10 at which a pass starts: an hour before
\* midnight, so that a clock that moves on during the pass changes the day.
FilterHours == {23}

(***************************************************************************)
(* Applications of the pure functions                                      *)
(***************************************************************************)

NoCall == [fn |-> "none", args |-> <<>>, ret |-> <<>>]

\* No function has been applied yet: each behaviour applies one function,
\* once, to one choice of inputs.
idle == call.fn = "none"

CallExpandSearchQuery ==
    /\ idle
    /\ \E query \in QueryPool :
           call' = [fn |-> "expandSearchQuery", args |-> [query |-> query],
                    ret |-> expandSearchQuery(query)]
    /\ UNCHANGED <<appVars, verifyVars>>

CallEventMatchesSearch ==
    /\ idle
    /\ \E event \in EventPool, searchTerms \in TermsPool :
           call' = [fn |-> "eventMatchesSearch",
                    args |-> [event |-> event, searchTerms |-> searchTerms],
                    ret |-> eventMatchesSearch(event, searchTerms)]
    /\ UNCHANGED <<appVars, verifyVars>>

CallMatchesSearch ==
    /\ idle
    /\ \E event \in EventPool, query \in QueryPool :
           call' = [fn |-> "matchesSearch",
                    args |-> [event |-> event, searchQuery |-> query],
                    ret |-> matchesSearch(event, query)]
    /\ UNCHANGED <<appVars, verifyVars>>

CallIsHomeGame ==
    /\ idle
    /\ \E event \in EventPool :
           call' = [fn |-> "isHomeGame", args |-> [event |-> event],
                    ret |-> isHomeGame(event)]
    /\ UNCHANGED <<appVars, verifyVars>>

CallMatchesCategory ==
    /\ idle
    /\ \E event \in EventPool, category \in CategoryPool :
           call' = [fn |-> "matchesCategory",
                    args |-> [event |-> event, category |-> category],
                    ret |-> matchesCategory(event, category)]
    /\ UNCHANGED <<appVars, verifyVars>>

matchesDateCall(date, dateRange, read1, tick, zone) ==
    [fn |-> "matchesDate",
     args |-> [date |-> date, dateRange |-> dateRange, read1 |-> read1,
               read2 |-> read1 + tick, zone |-> zone],
     ret |-> matchesDate([date |-> date], dateRange, read1, read1 + tick,
                         zone)]

CallMatchesDate ==
    /\ idle
    /\ \E date \in DatePool, dateRange \in DateRangeValues, zone \in ZonePool,
          day \in ClockDays, hour \in ClockHours, tick \in {0, 1} :
           call' = matchesDateCall(date, dateRange,
                                   localInstant(day, hour, zone), tick, zone)
    /\ UNCHANGED <<appVars, verifyVars>>

CallFilteredEvents ==
    /\ idle
    /\ \E events \in BatchPool, f \in FiltersPool, zone \in FilterZones,
          hour \in FilterHours :
           \E tickAfter \in 0..(2 * Len(events)) :
               call' = [fn |-> "filteredEvents",
                        args |-> [events |-> events, filters |-> f,
                                  zone |-> zone],
                        ret |-> computeFilteredEvents(
                                    events, f,
                                    localInstant(Str("2024-06-10"), hour, zone),
                                    tickAfter, zone)]
    /\ UNCHANGED <<appVars, verifyVars>>

\* The pipeline over a batch with null or absent fields, the clock
\* standing still during the pass.
CallFilteredEventsOfParsedBatch ==
    /\ idle
    /\ \E events \in ParsedBatchPool, f \in FiltersPool, zone \in FilterZones,
          hour \in FilterHours :
           call' = [fn |-> "filteredEventsOfParsedBatch",
                    args |-> [events |-> events, filters |-> f,
                              zone |-> zone],
                    ret |-> computeFilteredEvents(
                                events, f,
                                localInstant(Str("2024-06-10"), hour, zone),
                                2 * Len(events), zone)]
    /\ UNCHANGED <<appVars, verifyVars>>

(***************************************************************************)
(* Loading the snapshot                                                    *)
(***************************************************************************)

CALBEARS_TICKETS_URL ==
    Str("https://calbears.com/sports/2021/2/23/cal-golden-bears-tickets.aspx")

isSportsTag(tag) ==
    \/ includes(tag, Str("sport"))
    \/ includes(tag, Str("athletics"))
    \/ includes(tag, Str("cal bears"))

\* The post-processing of one event in fetchEventsFromGemini: a sports
\* event gets the tickets URL.
fixSportsUrl(event) ==
    IF /\ ~isNullish(event, "tags")
       /\ \E i \in 1..Len(event.tags) :
              isSportsTag(toLowerCase(event.tags[i]))
    THEN [event EXCEPT !.url = CALBEARS_TICKETS_URL]
    ELSE event

\* What fetchEventsFromGemini resolves with for the parsed document `data`
\* when the clock reads `clock`: a lastUpdated of 0 stands for a missing
\* one, replaced by Date.now().
fetchEventsFromGemini(data, clock) ==
    [events |-> [i \in 1..Len(data.events) |-> fixSportsUrl(data.events[i])],
     sources |-> data.sources,
     lastUpdated |-> IF data.lastUpdated = 0 THEN clock
                     ELSE data.lastUpdated]

GroundingSource(title, uri) == [title |-> Str(title), uri |-> Str(uri)]

\* When the published snapshot was written: 2024-06-09, 6 AM PST.
SnapshotTime == localInstant(Str("2024-06-09"), 6, -8)

\* The longest list of events a published snapshot holds.
MaxLoaded == 2

\* The events of the published snapshot, in the order of the file.
SnapshotList == <<PolicyLecture, AwayGame, HomeGame, ArtShow>>

\* The documents /events.json can hold: the first events of the snapshot
\* with its sources and timestamp, or a document without either.
SnapshotPool ==
    {[events |-> SubSeq(SnapshotList, 1, n),
      sources |-> <<GroundingSource("Berkeley Events",
                                    "https://events.berkeley.edu/")>>,
      lastUpdated |-> SnapshotTime] :
        n \in 0..Min({MaxLoaded, Len(SnapshotList)})}
    \cup {[events |-> <<PolicyLecture>>, sources |-> <<>>, lastUpdated |-> 0]}

(***************************************************************************)
(* The App component                                                       *)
(***************************************************************************)

\* The initial value of the `filters` state.
DefaultFilters ==
    [dateRange |-> "upcoming", category |-> Str("All"),
     searchQuery |-> Str("")]

\* The strings typed into the search box.
TypedQueries == {Str(""), Str("ai"), Str("constructor")}

\* How many hours the clock moves on during a session.
MaxTicks == 1

\* The clock when the page is opened: 11 PM local on 2024-06-10.
StartInstant(zone) == localInstant(Str("2024-06-10"), 23, zone)

\* The clock may still move on.
canTick == now < StartInstant(tz) + MaxTicks

\* The component is mounted: a render that threw has unmounted the tree.
mounted == ~filteredEvents.threw

\* The clock positions of a filter pass over `events`: after how many of
\* its 2 * Len(events) readings the clock moves on (all of them: it does
\* not move during the pass).
tickPoints(events) ==
    IF canTick THEN 0..(2 * Len(events)) ELSE {2 * Len(events)}

\* A render after a state change that gave `allEvents` or `filters` a new
\* identity: useMemo recomputes filteredEvents, reading the clock.
Render(events, f) ==
    \E tickAfter \in tickPoints(events) :
        /\ filteredEvents' = computeFilteredEvents(events, f, now,
                                                   tickAfter, tz)
        /\ now' = IF tickAfter < 2 * Len(events) THEN now + 1 ELSE now

\* loadEvents() up to its await: setLoading(LOADING) and the fetch starts.
\* The re-render does not recompute filteredEvents.
startLoad ==
    /\ loading' = "LOADING"
    /\ fetch' = fetch + 1
    /\ UNCHANGED <<allEvents, sources, lastUpdated, filters, filteredEvents,
                   now, tz, call,
                   verifyVars>>

\* useEffect(() => { loadEvents(); }, []) after the first render.
Mount ==
    /\ loading = "IDLE" /\ mounted
    /\ startLoad

\* Retry as it would be if the button were rendered while a load is in
\* flight too.
RetryWhileLoadingToo ==
    /\ loading \in {"ERROR", "LOADING"} /\ mounted
    /\ startLoad

\* Retry as it would be if the button were rendered after a successful
\* load too (a refresh button).
RetryAfterSuccessToo ==
    /\ loading \in {"ERROR", "SUCCESS"} /\ mounted
    /\ startLoad

\* The Retry button of the error state.
Retry ==
    /\ loading = "ERROR" /\ mounted
    /\ startLoad

\* setLoaded as it would be if the pass reversed the array it is given in
\* place before filtering it (allEvents.reverse().filter(...)).
setLoadedReversingInPlace(data) ==
    /\ allEvents' = [i \in 1..Len(data.events) |->
                         data.events[Len(data.events) + 1 - i]]
    /\ sources' = data.sources
    /\ lastUpdated' = data.lastUpdated
    /\ Render(allEvents', filters)

\* setAllEvents(data.events); setSources(data.sources);
\* setLastUpdated(data.lastUpdated), and the render that follows.
setLoaded(data) ==
    /\ allEvents' = data.events
    /\ sources' = data.sources
    /\ lastUpdated' = data.lastUpdated
    /\ Render(data.events, filters)

\* fetchEventsFromGemini resolves: the four setters run in one batch and
\* the next render recomputes filteredEvents over the new array.
LoadSucceeds ==
    /\ fetch > 0 /\ mounted
    /\ \E document \in SnapshotPool :
           setLoaded(fetchEventsFromGemini(document, now))
    /\ loading' = "SUCCESS"
    /\ fetch' = fetch - 1
    /\ UNCHANGED <<filters, tz, call,
                   verifyVars>>

\* LoadFails as it would be if the events were set before the rest of the
\* document is read and the load then failed.
LoadFailsAfterSetAllEvents ==
    /\ fetch > 0 /\ mounted
    /\ \E document \in SnapshotPool :
           /\ allEvents' = fetchEventsFromGemini(document, now).events
           /\ Render(allEvents', filters)
    /\ loading' = "ERROR"
    /\ fetch' = fetch - 1
    /\ UNCHANGED <<sources, lastUpdated, filters, tz, call,
                   verifyVars>>

\* LoadFails as it would be if the catch block started the load again
\* (setLoading(ERROR); loadEvents() without the setLoading(LOADING)).
LoadFailsRetrying ==
    /\ fetch > 0 /\ mounted
    /\ loading' = "ERROR"
    /\ fetch' = fetch
    /\ UNCHANGED <<allEvents, sources, lastUpdated, filters, filteredEvents,
                   now, tz, call,
                   verifyVars>>

\* fetchEventsFromGemini rejects (network failure, a status that is not
\* OK, a body that is not JSON): the catch block sets ERROR.
LoadFails ==
    /\ fetch > 0 /\ mounted
    /\ loading' = "ERROR"
    /\ fetch' = fetch - 1
    /\ UNCHANGED <<allEvents, sources, lastUpdated, filters, filteredEvents,
                   now, tz, call,
                   verifyVars>>

\* setFilters(...) with the next filters `f`, and the render it causes.
setFilters(f) ==
    /\ mounted
    /\ filters' = f
    /\ Render(allEvents, f)
    /\ UNCHANGED <<loading, allEvents, sources, lastUpdated, fetch, tz, call,
                   verifyVars>>

\* onChange of the search box.
SetSearchQuery ==
    \E query \in TypedQueries :
        setFilters([filters EXCEPT !.searchQuery = query])

\* onClick of a Time button.
SetDateRange ==
    \E dateRange \in DateRanges :
        setFilters([filters EXCEPT !.dateRange = dateRange])

\* The Topic buttons that get clicked.
TopicsClicked == {Str("All"), Str("Academic"), Str("Sports")}

\* onClick of a Topic button.
SetCategory ==
    \E cat \in Range(Categories) \cap TopicsClicked :
        setFilters([filters EXCEPT !.category = cat])

\* "Clear all filters", shown in the SUCCESS state over an empty result.
ClearFilters ==
    /\ loading = "SUCCESS" /\ mounted
    /\ Len(filteredEvents.value) = 0
    /\ setFilters(DefaultFilters)

\* An hour passes; nothing re-renders.
Tick ==
    /\ canTick
    /\ now' = now + 1
    /\ UNCHANGED <<loading, allEvents, sources, lastUpdated, filters,
                   filteredEvents, fetch, tz, call,
                   verifyVars>>

AppZones == {-7, 1}

Init ==
    /\ call = NoCall
    /\ tz \in AppZones
    /\ now = StartInstant(tz)
    /\ loading = "IDLE"
    /\ allEvents = <<>>
    /\ sources = <<>>
    /\ lastUpdated = 0
    /\ filters = DefaultFilters
    /\ filteredEvents = computeFilteredEvents(<<>>, DefaultFilters, now, 0, tz)
    /\ fetch = 0
    /\ verifyNotRun

Next ==
    \/ Mount
    \/ Retry
    \/ LoadSucceeds
    \/ LoadFails
    \/ SetSearchQuery
    \/ SetDateRange
    \/ SetCategory
    \/ ClearFilters
    \/ Tick

Spec == Init /\ [][Next]_vars

(***************************************************************************)
(* The pure functions applied to inputs drawn from the pools               *)
(***************************************************************************)

InitFn ==
    /\ call = NoCall
    /\ tz = 0
    /\ now = StartInstant(0)
    /\ loading = "IDLE"
    /\ allEvents = <<>>
    /\ sources = <<>>
    /\ lastUpdated = 0
    /\ filters = DefaultFilters
    /\ filteredEvents = computeFilteredEvents(<<>>, DefaultFilters, now, 0, tz)
    /\ fetch = 0
    /\ verifyNotRun

NextFn ==
    \/ CallExpandSearchQuery
    \/ CallEventMatchesSearch
    \/ CallMatchesSearch
    \/ CallIsHomeGame
    \/ CallMatchesCategory
    \/ CallMatchesDate
    \/ CallFilteredEvents
    \/ CallFilteredEventsOfParsedBatch

SpecFn == InitFn /\ [][NextFn]_vars

(***************************************************************************)
(* verifyEventUrls (scripts/updateEvents.ts)                               *)
(*                                                                         *)
(* The script runs on one thread: a worker() call runs without             *)
(* interruption from one await to the next, so a step of the model is the  *)
(* code between two awaits.  How a URL check resolves is the network's     *)
(* choice.                                                                 *)
(***************************************************************************)

\* The longest list handed to verifyEventUrls.
MaxUrlEvents == 3

\* The size of the worker pool.
MaxConcurrency == 2

\* const CONCURRENCY = 10, scaled down to MaxConcurrency so that a list
\* longer than the pool, whose workers take a second event, stays small.
CONCURRENCY == MaxConcurrency

DEFAULT_FALLBACK == Str("https://events.berkeley.edu/")

\* Where the host of an http(s) URL starts: after 'https://' or
\* 'http://'; 0 when the string has no such scheme.
schemeEnd(url) ==
    IF Len(url) >= 8 /\ SubSeq(url, 1, 8) = Str("https://") THEN 8
    ELSE IF Len(url) >= 7 /\ SubSeq(url, 1, 7) = Str("http://") THEN 7
    ELSE 0

\* Where the host that starts after `from` ends: before the first '/'.
hostEnd(url, from) ==
    IF \E k \in (from + 1)..Len(url) : url[k] = "/"
    THEN Min({k \in (from + 1)..Len(url) : url[k] = "/"}) - 1
    ELSE Len(url)

\* new URL(url).hostname for the strings of the lists below: the
\* lowercased host of an http(s) URL; a TypeError for a string that is no
\* URL, and for undefined.
hostnameOf(url) ==
    IF schemeEnd(url) = 0 \/ hostEnd(url, schemeEnd(url)) = schemeEnd(url)
    THEN Throw
    ELSE Return(toLowerCase(SubSeq(url, schemeEnd(url) + 1,
                                   hostEnd(url, schemeEnd(url)))))

\* The first of prioritySourceUrls, and the first with a host seen before.
prioritySourceUrls ==
    <<Str("https://events.berkeley.edu/"),
      Str("https://calperformances.org/events/"),
      Str("https://calbears.com/calendar"),
      Str("https://ehub.berkeley.edu/events/"),
      Str("https://events.berkeley.edu/chem/")>>

\* map.set(host, url) unless map.has(host), for a URL that parses.
fallbackMapWith(map, url, host) ==
    IF host.threw \/ host.value \in DOMAIN map THEN map
    ELSE map @@ (host.value :> url)

\* buildFallbackMap(urls) from the k-th URL on.
RECURSIVE buildFallbackMapFrom(_, _, _)
buildFallbackMapFrom(urls, k, map) ==
    IF k > Len(urls) THEN map
    ELSE buildFallbackMapFrom(urls, k + 1,
                              fallbackMapWith(map, urls[k],
                                              hostnameOf(urls[k])))

buildFallbackMap(urls) == buildFallbackMapFrom(urls, 1, <<>>)

fallbackMap == buildFallbackMap(prioritySourceUrls)

\* fallbackMap.get(host) || DEFAULT_FALLBACK, or DEFAULT_FALLBACK when
\* new URL(event.url) threw.
fallbackOfHost(host) ==
    IF host.threw THEN DEFAULT_FALLBACK
    ELSE IF host.value \in DOMAIN fallbackMap THEN fallbackMap[host.value]
    ELSE DEFAULT_FALLBACK

\* The fallback computed in the else branch of the worker.
fallbackOf(event) ==
    fallbackOfHost(IF isNullish(event, "url") THEN Throw
                   ELSE hostnameOf(event.url))

\* { ...event, url: fallback }
withUrl(event, url) ==
    [event EXCEPT !.url = url, !.nulls = @ \ {"url"}]

\* An element of new Array(n) that has not been assigned.
Hole == [hole |-> TRUE]

\* results.push(value) in place of the assignment to results[i].
assignedByPush(array, i, value) == Append(array, value)

\* results[i] = value, i counted from 0.
assigned(array, i, value) == [array EXCEPT ![i + 1] = value]

\* checkUrl as it would be if a GET that is not OK started the check
\* again with HEAD.
checkUrlStepRetrying(pc, outcome) ==
    IF outcome = "throws" THEN [resolved |-> TRUE, ok |-> FALSE]
    ELSE IF outcome = "ok" THEN [resolved |-> TRUE, ok |-> TRUE]
    ELSE IF pc = "head" THEN [resolved |-> FALSE, pc |-> "get"]
    ELSE [resolved |-> FALSE, pc |-> "head"]

\* checkUrl at the fetch it awaits (pc: "head" or "get"), when that fetch
\* settles: an OK response resolves the check with true; a response that
\* is not OK makes HEAD go on to GET and GET resolve with false; a fetch
\* that rejects (network error, timeout) resolves it with false.
checkUrlStep(pc, outcome) ==
    IF outcome = "throws" THEN [resolved |-> TRUE, ok |-> FALSE]
    ELSE IF outcome = "ok" THEN [resolved |-> TRUE, ok |-> TRUE]
    ELSE IF pc = "head" THEN [resolved |-> FALSE, pc |-> "get"]
    ELSE [resolved |-> TRUE, ok |-> FALSE]

FetchOutcomes == {"ok", "notOk", "throws"}

\* A worker after `const i = index++`: it returns when i >= events.length
\* and awaits checkUrl(events[i].url) otherwise.
claiming(i) ==
    [pc |-> IF i >= Len(toVerify) THEN "returned" ELSE "head", i |-> i]

\* Some events with URLs on hosts with a fallback, on a host without one,
\* and with a url that is no URL or is missing.
UrlEventList ==
    <<PolicyLecture,
      withUrl(AwayGame, Str("https://calbears.com/sports/football")),
      withUrl(ArtShow, Str("https://bampfa.org/event/painting")),
      withUrl(HomeGame, Str("TBD")),
      without(AiLab, "url")>>

\* The lists handed to verifyEventUrls.
UrlEventsPool ==
    {SubSeq(UrlEventList, 1, n) : n \in 0..Min({MaxUrlEvents, Len(UrlEventList)})}
    \cup {SubSeq(UrlEventList, 3, Len(UrlEventList))}

\* verifyEventUrls up to `await Promise.all(...)`: the local variables are
\* set and Math.min(CONCURRENCY, events.length) worker() calls are made
\* one after the other, each running to its first await: the w-th takes
\* index w - 1.
StartVerify ==
    /\ verifyPc = "start"
    /\ results' = [k \in 1..Len(toVerify) |-> Hole]
    /\ workers' = [w \in 1..Min({CONCURRENCY, Len(toVerify)}) |->
                       claiming(w - 1)]
    /\ index' = Min({CONCURRENCY, Len(toVerify)})
    /\ verified' = 0
    /\ replaced' = 0
    /\ verifyPc' = "awaiting"
    /\ UNCHANGED <<toVerify, call, appVars>>

\* Worker w from the resolution of its checkUrl with `ok` to its next
\* await or its return: the slot is assigned, the counter is incremented
\* and the next index is taken.
resumeWorker(w, ok) ==
    /\ results' = assigned(results, workers[w].i,
                           IF ok THEN toVerify[workers[w].i + 1]
                           ELSE withUrl(toVerify[workers[w].i + 1],
                                        fallbackOf(toVerify[workers[w].i + 1])))
    /\ verified' = IF ok THEN verified + 1 ELSE verified
    /\ replaced' = IF ok THEN replaced ELSE replaced + 1
    /\ index' = index + 1
    /\ workers' = [workers EXCEPT ![w] = claiming(index)]

\* The fetch worker w awaits has settled and its check is not resolved:
\* checkUrl goes on to its next fetch.
awaitNextFetch(w, pc) ==
    /\ workers' = [workers EXCEPT ![w].pc = pc]
    /\ UNCHANGED <<results, index, verified, replaced>>

\* The fetch that worker w awaits inside checkUrl settles.
FetchSettles ==
    /\ verifyPc = "awaiting"
    /\ \E w \in 1..Len(workers), outcome \in FetchOutcomes :
           /\ workers[w].pc \in {"head", "get"}
           /\ IF checkUrlStep(workers[w].pc, outcome).resolved
              THEN resumeWorker(w, checkUrlStep(workers[w].pc, outcome).ok)
              ELSE awaitNextFetch(w, checkUrlStep(workers[w].pc, outcome).pc)
    /\ UNCHANGED <<toVerify, verifyPc, call, appVars>>

\* Promise.all resolves once every worker has returned, and
\* verifyEventUrls returns `results`.
ReturnResults ==
    /\ verifyPc = "awaiting"
    /\ \A w \in 1..Len(workers) : workers[w].pc = "returned"
    /\ verifyPc' = "returned"
    /\ UNCHANGED <<toVerify, results, index, verified, replaced, workers,
                   call, appVars>>

InitVerify ==
    /\ call = NoCall
    /\ tz = 0
    /\ now = StartInstant(0)
    /\ loading = "IDLE"
    /\ allEvents = <<>>
    /\ sources = <<>>
    /\ lastUpdated = 0
    /\ filters = DefaultFilters
    /\ filteredEvents = computeFilteredEvents(<<>>, DefaultFilters, now, 0, tz)
    /\ fetch = 0
    /\ toVerify \in UrlEventsPool
    /\ results = <<>>
    /\ index = 0
    /\ verified = 0
    /\ replaced = 0
    /\ workers = <<>>
    /\ verifyPc = "start"

NextVerify ==
    \/ StartVerify
    \/ FetchSettles
    \/ ReturnResults

SpecVerify == InitVerify /\ [][NextVerify]_vars

\* Every fetch settles (by its timeout at the latest) and the event loop
\* runs what is ready to run.
SpecVerifyLive == SpecVerify /\ WF_vars(NextVerify)

(***************************************************************************)
(* Properties                                                              *)
(***************************************************************************)

\* needle occurs in text: text is some prefix, then needle, then some suffix.
occursIn(needle, text) ==
    \E i \in 0..(Len(text) - Len(needle)) :
        \A k \in 1..Len(needle) : text[i + k] = needle[k]

\* term occurs in text as a whole word: an occurrence that neither
\* follows nor is followed by a letter, a digit or an underscore.
occursAsWord(term, text) ==
    \E i \in 0..(Len(text) - Len(term)) :
        /\ \A k \in 1..Len(term) : text[i + k] = term[k]
        /\ i = 0 \/ text[i] \notin WordChars
        /\ i + Len(term) = Len(text) \/ text[i + Len(term) + 1] \notin WordChars

\* The lowercase form of a string, letter by letter.
lowered(s) == [i \in 1..Len(s) |-> toLowerCaseChar(s[i])]

\* The tags of an event as a set, empty when the event has none.
tagsOf(event) ==
    IF "tags" \in event.nulls THEN {} ELSE Range(event.tags)

\* The elements of s at the positions K, in increasing order of position.
atPositions(s, K) ==
    [j \in 1..Cardinality(K) |->
        s[CHOOSE i \in K : Cardinality({k \in K : k <= i}) = j]]

\* A predicate that may throw passes when it returns true.
passes(result) == ~result.threw /\ result.value

\* Event i of a pass passes all four predicates, the date predicate taken
\* at the clock readings of that event.
passesAllFour(events, i, f, at, tickAfter, zone) ==
    /\ matchesCategory(events[i], f.category)
    /\ matchesDate(events[i], f.dateRange,
                   clockRead(at, tickAfter, 2 * i - 1),
                   clockRead(at, tickAfter, 2 * i), zone)
    /\ passes(matchesSearch(events[i], f.searchQuery))
    /\ passes(isHomeGame(events[i]))

\* What a pass keeps: its result, nothing when it threw.
keptBy(result) == IF result.threw THEN <<>> ELSE result.value

\* The events a pass keeps are exactly those of the batch for which all
\* four predicates pass, each once and at its place; a pass that throws
\* keeps nothing.
keepsThoseThatPassAllFour ==
    call.fn = "filteredEvents" =>
        keptBy(call.ret) =
            atPositions(call.args.events,
                        {i \in 1..Len(call.args.events) :
                            passesAllFour(call.args.events, i,
                                          call.args.filters, call.ret.at,
                                          call.ret.tickAfter,
                                          call.args.zone)})

\* C1, as the specification states it: for every batch, filter state and
\* now, the filter pipeline returns the events for which all four
\* predicates (category, date window, search, locality) pass, and no
\* others.
C1_ReturnsExactlyThoseThatPassAllFour ==
    call.fn = "filteredEvents" =>
        /\ ~call.ret.threw
        /\ keepsThoseThatPassAllFour

\* The instant of a valid date string as a day number, and the local day
\* number of an instant of the clock.
dayOf(date) == dateParse(date) \div HoursPerDay
localDayOf(t, zone) == (t + zone) \div HoursPerDay

\* A call of the date predicate with a date that parses and one reading
\* of the clock.
datedCall(dateRange) ==
    /\ call.fn = "matchesDate"
    /\ call.args.dateRange = dateRange
    /\ call.args.read1 = call.args.read2
    /\ dateParse(call.args.date) # NaN

\* C2, as the specification states it: under 'week' an event passes
\* exactly when its date lies in the window from the local midnight of
\* today to seven days later, both ends included, whatever the time of
\* day and the local UTC offset: with now = 2024-06-10 local, the events
\* dated 2024-06-10 to 2024-06-17 and no others.
C2_WeekIsTodayThroughSevenDays ==
    datedCall("week") =>
        call.ret =
            /\ localDayOf(call.args.read1, call.args.zone) <= dayOf(call.args.date)
            /\ dayOf(call.args.date) <= localDayOf(call.args.read1, call.args.zone) + 7

\* C3, as the specification states it: under 'today' an event passes
\* exactly when its date is the local calendar date of now, whatever the
\* local UTC offset.
C3_TodayIsTheLocalCalendarDate ==
    datedCall("today") =>
        call.ret =
            (dayOf(call.args.date) = localDayOf(call.args.read1, call.args.zone))

\* The short terms that match as whole words only.
ShortTerms == {Str("ai"), Str("ml"), Str("ar"), Str("vr"), Str("it"), Str("cs")}

\* C4: a term of the set {ai, ml, ar, vr, it, cs} matches an event only
\* where it occurs as a whole word of the searchable text, every other
\* term wherever it occurs as a substring; the event matches when some
\* term of the list does.  So 'ai' does not match the title 'Training
\* Session' and does match 'AI Ethics Talk'.
C4_ShortTermsMatchWholeWordsOnly ==
    call.fn = "eventMatchesSearch" =>
        call.ret =
            \E term \in Range(call.args.searchTerms) :
                IF term \in ShortTerms
                THEN occursAsWord(term, searchableText(call.args.event))
                ELSE occursIn(term, searchableText(call.args.event))

\* C4's case: 'ai' is inside 'Training' and the event does not match.
C4_Witness ==
    /\ call.fn = "eventMatchesSearch"
    /\ call.args.searchTerms = <<Str("ai")>>
    /\ call.args.event = TrainingSession
    /\ occursIn(Str("ai"), searchableText(TrainingSession))
    /\ call.ret = FALSE

\* The maximal runs of non-whitespace characters of s.
wordsOf(s) ==
    {SubSeq(s, p[1], p[2]) : p \in
        {p \in (1..Len(s)) \X (1..Len(s)) :
            /\ p[1] <= p[2]
            /\ \A k \in p[1]..p[2] : ~isWhitespace(s[k])
            /\ p[1] = 1 \/ isWhitespace(s[p[1] - 1])
            /\ p[2] = Len(s) \/ isWhitespace(s[p[2] + 1])}}

\* The set the expansion of a normalized query is to be: the query and
\* the synonyms of every key that is the query or one of its words.
expectedTerms(normalized) ==
    {normalized} \cup
    UNION {Range(SEARCH_SYNONYMS[i].synonyms) :
              i \in {i \in 1..Len(SEARCH_SYNONYMS) :
                        \/ SEARCH_SYNONYMS[i].key = normalized
                        \/ SEARCH_SYNONYMS[i].key \in wordsOf(normalized)}}

\* C5, as the specification states it: expandSearchQuery returns, for
\* every query, exactly the lowercased and trimmed query together with
\* the synonyms of every key that equals the whole query or one of its
\* whitespace-separated words, each term once.
C5_ExpansionIsQueryAndSynonymsOfItsWords ==
    call.fn = "expandSearchQuery" =>
        /\ ~call.ret.threw
        /\ Range(call.ret.value) =
               expectedTerms(trim(lowered(call.args.query)))
        /\ Cardinality(Range(call.ret.value)) = Len(call.ret.value)

\* Whenever expandSearchQuery returns, it returns that set.
expansionIsExactWhenItReturns ==
    (call.fn = "expandSearchQuery" /\ ~call.ret.threw) =>
        /\ Range(call.ret.value) =
               expectedTerms(trim(lowered(call.args.query)))
        /\ Cardinality(Range(call.ret.value)) = Len(call.ret.value)

\* A search of the event whose only text about the subject is the
\* description 'deep learning models', for a query that normalizes to q.
deepLearningSearch(q) ==
    /\ call.fn = "matchesSearch"
    /\ call.args.event = DeepLearning
    /\ trim(lowered(call.args.searchQuery)) = Str(q)

\* C6, as the specification states it: 'ml' and 'machine learning' both
\* match an event whose description contains only the phrase 'deep
\* learning models'.
C6_BothQueriesMatchDeepLearning ==
    (deepLearningSearch("ml") \/ deepLearningSearch("machine learning")) =>
        call.ret = Return(TRUE)

\* C6: 'machine learning' matches that event, 'deep learning' being one
\* of its synonyms; 'ml' does not, since the synonyms of 'ml' are
\* 'machine learning', 'ai' and 'artificial intelligence' and none of
\* them, nor 'ml', occurs in the text of the event.
C6_MachineLearningMatchesAndMlDoesNot ==
    /\ deepLearningSearch("machine learning") => call.ret = Return(TRUE)
    /\ deepLearningSearch("ml") => call.ret = Return(FALSE)

\* C6's case: the query 'ml' against that event.
C6_Witness ==
    /\ deepLearningSearch("ml")
    /\ call.args.event.description = Str("deep learning models")
    /\ call.ret = Return(FALSE)

\* C7: isHomeGame is true of every event none of whose tags contains
\* 'sport' (case-insensitively), and of a sports event exactly when its
\* lowercase location contains an entry of the Berkeley allowlist: the
\* game at 'Stanford, CA' is out, the one at 'Haas Pavilion, Berkeley, CA'
\* is in.
C7_HomeGameIffBerkeleyLocation ==
    call.fn = "isHomeGame" =>
        /\ ~call.ret.threw
        /\ call.ret.value =
               \/ ~\E tag \in tagsOf(call.args.event) :
                      occursIn(Str("sport"), lowered(tag))
               \/ \E loc \in Range(BERKELEY_LOCATIONS) :
                      occursIn(loc, lowered(call.args.event.location))

\* C7's case: a sports event away from Berkeley.
C7_Witness ==
    /\ call.fn = "isHomeGame"
    /\ call.args.event.tags = <<Str("Sports")>>
    /\ call.args.event.location = Str("Stanford, CA")
    /\ call.ret = Return(FALSE)

\* C8: with a category other than 'All', an event passes the category
\* predicate exactly when one of its tags, lowercased, contains the
\* lowercased category or one of its tags is the category; an event
\* without tags does not pass.
C8_CategoryMatchesTags ==
    (call.fn = "matchesCategory" /\ call.args.category # Str("All")) =>
        call.ret =
            \E tag \in tagsOf(call.args.event) :
                \/ occursIn(lowered(call.args.category), lowered(tag))
                \/ tag = call.args.category

\* C8's case: the category 'Sports' against the tag 'Intramural sports',
\* which contains it only once lowercased.
C8_Witness ==
    /\ call.fn = "matchesCategory"
    /\ call.args.category = Str("Sports")
    /\ call.args.event.tags = <<Str("Intramural sports")>>
    /\ call.ret = TRUE

\* C9: the category 'All' passes every event, an event without tags
\* included.
C9_AllPassesEveryEvent ==
    (call.fn = "matchesCategory" /\ call.args.category = Str("All")) =>
        call.ret = TRUE

\* C9's case: 'All' against an event whose tags are absent.
C9_Witness ==
    /\ call.fn = "matchesCategory"
    /\ call.args.category = Str("All")
    /\ "tags" \in call.args.event.nulls
    /\ call.ret = TRUE

\* out can be had from s by deleting elements: it is the elements of s at
\* some set of positions, in their order in s.
isSubsequence(out, s) ==
    \E K \in SUBSET (1..Len(s)) : out = atPositions(s, K)

\* C10: the filtered list is a subsequence of the loaded list: every
\* event the pass returns is an event of the batch, none twice over, and
\* the events returned keep the relative order they have in the batch.
C10_ResultIsSubsequenceOfBatch ==
    (call.fn = "filteredEvents" /\ ~call.ret.threw) =>
        isSubsequence(call.ret.value, call.args.events)

\* C10's case: of three events the first is dropped and the two others
\* are returned in the order they were loaded in.
C10_Witness ==
    /\ call.fn = "filteredEvents"
    /\ call.args.events = EndToEndBatch
    /\ ~call.ret.threw
    /\ call.ret.value = <<PolicyLecture, ArtShow>>

\* A pass during which the clock stands still: every reading is `at`.
atFixedNow ==
    /\ call.fn = "filteredEvents"
    /\ call.ret.tickAfter = 2 * Len(call.args.events)

\* The outcome of filtering once more, with the same filters and the
\* same now, what a pass returned; a pass that threw returned nothing to
\* filter, and its outcome stands.
filteredAgain ==
    IF call.ret.threw THEN call.ret
    ELSE computeFilteredEvents(call.ret.value, call.args.filters,
                               call.ret.at, 2 * Len(call.args.events),
                               call.args.zone)

\* C11: filtering is idempotent: for every batch and filter state, at a
\* fixed now, filtering the filtered list again with the same filters
\* gives the filtered list.
C11_FilteringTwiceIsFilteringOnce ==
    atFixedNow =>
        /\ filteredAgain.threw = call.ret.threw
        /\ filteredAgain.value = call.ret.value

\* C11's case: a pass that drops one of two events, so that filtering
\* again starts from a list other than the batch.
C11_Witness ==
    /\ atFixedNow
    /\ Len(call.args.events) = 2
    /\ ~call.ret.threw
    /\ Len(call.ret.value) = 1
    /\ filteredAgain.value = call.ret.value

\* A step in which the pipeline runs: the batch or the filters got a new
\* identity and filteredEvents is recomputed.
passRuns ==
    \/ allEvents' # allEvents
    \/ filters' # filters
    \/ filteredEvents' # filteredEvents

\* The batch after the step is the batch before it, or the batch as the
\* load that completes in the step fetched it.
batchAsGiven ==
    \/ allEvents' = allEvents
    \/ /\ fetch > 0
       /\ \E document \in SnapshotPool :
              allEvents' = fetchEventsFromGemini(document, now).events

\* The filter state after the step is the one before it, or the one a
\* control set: at most one field changed, or all filters cleared.
filtersAsGiven ==
    \/ filters' = filters
    \/ /\ allEvents' = allEvents
       /\ \/ filters' = DefaultFilters
          \/ Cardinality({k \in DOMAIN filters : filters'[k] # filters[k]}) = 1

\* C12: running the filter pipeline leaves the batch and the filter state
\* unchanged: after a step in which the pipeline runs the batch has the
\* events it was given, in the same order and with the same field values,
\* the filter state is the one it was given, and the filtered list is the
\* pipeline's result for that very batch and filter state.
C12_PassLeavesBatchAndFiltersAsGiven ==
    [][passRuns =>
          /\ batchAsGiven
          /\ filtersAsGiven
          /\ filteredEvents' =
                 computeFilteredEvents(allEvents', filters',
                                       filteredEvents'.at,
                                       filteredEvents'.tickAfter, tz)]_vars

\* C12's case: a pass over a loaded batch of two events has dropped one
\* of them from the filtered list, and the batch still holds both.
C12_Witness ==
    /\ loading = "SUCCESS"
    /\ allEvents = <<PolicyLecture,
                     [AwayGame EXCEPT !.url = CALBEARS_TICKETS_URL]>>
    /\ ~filteredEvents.threw
    /\ filteredEvents.value = <<PolicyLecture>>

\* The query is empty once trimmed: it holds nothing but whitespace.
blank(query) == \A i \in 1..Len(query) : isWhitespace(query[i])

\* Event i of a pass passes the category, date and locality predicates.
passesAllButSearch(events, i, f, at, tickAfter, zone) ==
    /\ matchesCategory(events[i], f.category)
    /\ matchesDate(events[i], f.dateRange,
                   clockRead(at, tickAfter, 2 * i - 1),
                   clockRead(at, tickAfter, 2 * i), zone)
    /\ passes(isHomeGame(events[i]))

\* C13: when the search query is empty after trimming (empty or only
\* whitespace) the search predicate passes every event, and the pipeline
\* returns what the category, date and locality predicates alone let
\* through.
C13_BlankQueryBypassesSearch ==
    /\ (call.fn = "matchesSearch" /\ blank(call.args.searchQuery)) =>
           call.ret = Return(TRUE)
    /\ (call.fn = "filteredEvents" /\ blank(call.args.filters.searchQuery)) =>
           /\ ~call.ret.threw
           /\ call.ret.value =
                  atPositions(call.args.events,
                              {i \in 1..Len(call.args.events) :
                                  passesAllButSearch(
                                      call.args.events, i, call.args.filters,
                                      call.ret.at, call.ret.tickAfter,
                                      call.args.zone)})

\* C13's case: a query of two spaces, against an event none of whose
\* fields holds two spaces in a row.
C13_Witness ==
    /\ call.fn = "matchesSearch"
    /\ call.args.searchQuery = Str("  ")
    /\ call.args.event = PolicyLecture
    /\ ~occursIn(Str("  "), searchableText(PolicyLecture))
    /\ call.ret = Return(TRUE)

\* C14: with dateRange 'upcoming' the date predicate passes every event,
\* the events dated before now and those whose date does not parse
\* included.
C14_UpcomingPassesEveryDate ==
    (call.fn = "matchesDate" /\ call.args.dateRange = "upcoming") =>
        call.ret = TRUE

\* C14's case: an event dated the day before now.
C14_Witness ==
    /\ call.fn = "matchesDate"
    /\ call.args.dateRange = "upcoming"
    /\ call.args.date = Str("2024-06-09")
    /\ dayOf(call.args.date) < localDayOf(call.args.read1, call.args.zone)
    /\ call.ret = TRUE

\* The date string is not of the form YYYY-MM-DD.
unparsable(date) ==
    \/ Len(date) # 10
    \/ \E i \in 1..Len(date) :
           IF i \in {5, 8} THEN date[i] # "-" ELSE date[i] \notin Range(Digits)

failingClosed ==
    atPositions(call.args.events,
                {i \in 1..Len(call.args.events) :
                    passesAllFour(call.args.events, i, call.args.filters,
                                  call.ret.at, call.ret.tickAfter,
                                  call.args.zone)})

\* C16, as the specification states it: for every batch, the batches
\* with events whose title, tags or location is absent or null included,
\* the pipeline raises no exception; the predicate that reads the missing
\* field does not match for that one event and the rest of the batch is
\* filtered and returned.
C16_NullFieldsFailClosed ==
    call.fn = "filteredEventsOfParsedBatch" =>
        /\ ~call.ret.threw
        /\ call.ret.value = failingClosed

\* A sports event of the batch has no location.
sportsEventWithoutLocation ==
    \E i \in 1..Len(call.args.events) :
        /\ isSportsEvent(call.args.events[i])
        /\ "location" \in call.args.events[i].nulls

\* Over batches with null or absent fields the pass throws exactly when a
\* sports event has no location or the query expansion throws; otherwise
\* it fails closed.
nullFieldsThrowOnlyInLocality ==
    call.fn = "filteredEventsOfParsedBatch" =>
        /\ call.ret.threw =
               \/ sportsEventWithoutLocation
               \/ expandSearchQuery(call.args.filters.searchQuery).threw
        /\ ~call.ret.threw => call.ret.value = failingClosed

\* The filters of the end-to-end example: every category, every date,
\* the query 'ai'.
endToEndFilters ==
    [dateRange |-> "upcoming", category |-> Str("All"),
     searchQuery |-> Str("ai")]

\* C17: for the batch of (1) the Sports event at Stanford on 2024-06-05,
\* (2) the Academic event 'AI Policy Lecture' in Berkeley on 2024-06-11
\* and (3) the Arts event in Berkeley on 2024-06-09, with now on
\* 2024-06-10 and the filters {category 'All', dateRange 'upcoming',
\* searchQuery 'ai'}, the pipeline returns exactly event (2).
C17_EndToEndReturnsThePolicyLecture ==
    (/\ call.fn = "filteredEvents"
     /\ call.args.events = EndToEndBatch
     /\ call.args.filters = endToEndFilters) =>
        /\ ~call.ret.threw
        /\ call.ret.value = <<PolicyLecture>>

\* C17's case: the pass over the three events at 23:00 on 2024-06-10 has
\* returned, the away game dropped by locality and the exhibition by the
\* search.
C17_Witness ==
    /\ call.fn = "filteredEvents"
    /\ call.args.events = EndToEndBatch
    /\ call.args.filters = endToEndFilters
    /\ call.ret.at = localInstant(Str("2024-06-10"), 23, call.args.zone)
    /\ ~isHomeGame(call.args.events[1]).value
    /\ ~matchesSearch(call.args.events[3], Str("ai")).value
    /\ ~call.ret.threw
    /\ Len(call.ret.value) = 1
    /\ call.ret.value[1].title = Str("AI Policy Lecture")

\* C18, as the specification states it: expandSearchQuery has no error
\* conditions: for every query string it returns a term set and raises
\* nothing, and for the empty or whitespace-only query it returns the set
\* with the empty string as its single element.
C18_ExpansionNeverRaises ==
    call.fn = "expandSearchQuery" =>
        /\ ~call.ret.threw
        /\ blank(call.args.query) => call.ret.value = <<Str("")>>

\* What does hold: the empty and the whitespace-only query return the
\* single term '', and a query that raises is, once normalized, the name
\* of a member the synonym table inherits.
blankQueryExpandsToTheEmptyTerm ==
    call.fn = "expandSearchQuery" =>
        /\ blank(call.args.query) =>
               ~call.ret.threw /\ call.ret.value = <<Str("")>>
        /\ call.ret.threw =>
               trim(lowered(call.args.query)) = Str("constructor")

\* The strings of parts one after the other, sep between two neighbours.
RECURSIVE separatedBy(_, _)
separatedBy(parts, sep) ==
    IF parts = <<>> THEN <<>>
    ELSE IF Len(parts) = 1 THEN parts[1]
    ELSE parts[1] \o sep \o separatedBy(Tail(parts), sep)

\* The text of a field, empty when the event does not have the field.
textOf(event, field) ==
    IF field \in event.nulls THEN <<>> ELSE event[field]

\* The haystack of an event: its title, its description, its organizer
\* and all its tags, a space between two of them, in lowercase.
haystackOf(event) ==
    lowered(separatedBy(
        <<textOf(event, "title"), textOf(event, "description"),
          textOf(event, "organizer")>> \o textOf(event, "tags"),
        Str(" ")))

\* term is found in text: as a whole word for the short terms, anywhere
\* for the others.
foundIn(term, text) ==
    IF term \in ShortTerms THEN occursAsWord(term, text)
    ELSE occursIn(term, text)

\* The event with every term of the list written into its location, time,
\* date and url.
withTermsElsewhere(event, searchTerms) ==
    [event EXCEPT !.location = separatedBy(searchTerms, Str(" ")),
                  !.time = separatedBy(searchTerms, Str(" ")),
                  !.date = separatedBy(searchTerms, Str(" ")),
                  !.url = separatedBy(searchTerms, Str(" ")),
                  !.nulls = @ \ {"location", "time", "date", "url"}]

\* C19: eventMatchesSearch(event, terms) is true if and only if at least
\* one term of the list is found in the lowercase haystack of the event's
\* title, description, organizer and tags; the location, time, date and
\* url are never searched: the same event with the terms in those four
\* fields gets the same answer.
C19_MatchesIffSomeTermIsInTheHaystack ==
    call.fn = "eventMatchesSearch" =>
        /\ call.ret =
               \E term \in Range(call.args.searchTerms) :
                   foundIn(term, haystackOf(call.args.event))
        /\ eventMatchesSearch(
               withTermsElsewhere(call.args.event, call.args.searchTerms),
               call.args.searchTerms) = call.ret

\* C19's case: 'lab' is in the location 'AI Lab' of the open house and
\* nowhere in its haystack, and the event does not match.
C19_Witness ==
    /\ call.fn = "eventMatchesSearch"
    /\ call.args.event = AiLab
    /\ call.args.searchTerms = <<Str("lab")>>
    /\ occursIn(Str("lab"), lowered(call.args.event.location))
    /\ ~occursIn(Str("lab"), haystackOf(call.args.event))
    /\ call.ret = FALSE

\* A load is in flight.
loadInFlight == fetch > 0

\* C20: when a load of the batch fails the client enters ERROR and stays
\* there: in ERROR no load is in flight, none is started but by the Retry
\* button, and that is the only step that leaves ERROR; it runs the load
\* from scratch, to LOADING with the fetch in flight, and the load ends
\* in SUCCESS or in ERROR.
C20_ErrorIsLeftOnlyByRetry ==
    /\ [](loading = "ERROR" => ~loadInFlight)
    /\ [](loading = "LOADING" => loadInFlight)
    /\ [][/\ (loading = "ERROR" /\ (loading' # "ERROR" \/ loadInFlight')) =>
                 (Retry /\ loading' = "LOADING" /\ loadInFlight')
          /\ (loading = "LOADING" /\ loading' # "LOADING") =>
                 (loading' \in {"SUCCESS", "ERROR"} /\ ~loadInFlight')]_vars

\* C20's case: a load has failed; the client shows the error state with
\* its Retry button, no load is in flight and nothing has been loaded.
C20_Witness ==
    /\ loading = "ERROR"
    /\ ~loadInFlight
    /\ mounted
    /\ ENABLED Retry
    /\ allEvents = <<>>
    /\ lastUpdated = 0

\* What a load yields: the events, the sources and the timestamp.
loadedTriple == <<allEvents, sources, lastUpdated>>

\* C21: a load yields the complete triple {events, sources, lastUpdated}
\* or signals an error with no partial results: the step that ends a load
\* in SUCCESS sets all three from one document, and every other step
\* taken while a load is in flight, the one that ends it in ERROR
\* included, leaves all three exactly as they were when the load started.
C21_FailedLoadLeavesNothingBehind ==
    [][/\ (loadInFlight /\ loading' = "SUCCESS") =>
              \E document \in SnapshotPool :
                  LET data == fetchEventsFromGemini(document, now)
                  IN  loadedTriple' =
                          <<data.events, data.sources, data.lastUpdated>>
       /\ (loadInFlight /\ loading' # "SUCCESS") =>
              UNCHANGED loadedTriple]_vars

\* C21's case: a load has failed after the user had typed a query, and
\* nothing of a document is in the client's state.
C21_Witness ==
    /\ loading = "ERROR"
    /\ ~loadInFlight
    /\ filters.searchQuery = Str("ai")
    /\ loadedTriple = <<<<>>, <<>>, 0>>

\* C22: the batch is loaded once per session and is immutable afterwards:
\* once a load has succeeded no step, of the user or of the clock,
\* changes the events, the sources or lastUpdated, starts a load or takes
\* the state out of SUCCESS.
C22_BatchIsImmutableAfterSuccess ==
    /\ [](loading = "SUCCESS" => ~loadInFlight)
    /\ [][loading = "SUCCESS" =>
              /\ loading' = "SUCCESS"
              /\ ~loadInFlight'
              /\ UNCHANGED loadedTriple]_vars

\* C22's case: after a load that brought two events the user has changed
\* the filters and the clock has moved on; the state is SUCCESS still.
C22_Witness ==
    /\ loading = "SUCCESS"
    /\ Len(allEvents) = 2
    /\ lastUpdated = SnapshotTime
    /\ filters # DefaultFilters
    /\ now = StartInstant(tz) + 1

\* The pipeline applied to the current batch, the current filters and
\* the current now.
filteredNow ==
    computeFilteredEvents(allEvents, filters, now, 2 * Len(allEvents), tz)

\* C23, as the specification states it: after any sequence of loads,
\* filter changes and passage of time the displayed subset equals the
\* pipeline applied to the current batch, the current filters and the
\* current now; a result computed for 'today' or 'week' does not stay
\* displayed once now is past the boundary of the window.
C23_DisplayedIsThePipelineNow ==
    /\ filteredEvents.threw = filteredNow.threw
    /\ filteredEvents.value = filteredNow.value

\* What does hold: the displayed subset is the pipeline applied to the
\* current batch and the current filters at the clock of the render that
\* followed their last change.
displayedIsThePipelineAtLastChange ==
    filteredEvents =
        computeFilteredEvents(allEvents, filters, filteredEvents.at,
                              filteredEvents.tickAfter, tz)

\* A result for 'today' computed while the clock stood still is displayed
\* an hour later, when for the same batch and filters the pipeline
\* returns something else.
staleTodayDisplayed ==
    /\ loading = "SUCCESS"
    /\ filters.dateRange = "today"
    /\ filteredEvents.tickAfter = 2 * Len(allEvents)
    /\ now = filteredEvents.at + 1
    /\ ~filteredNow.threw /\ ~filteredEvents.threw
    /\ filteredEvents.value # filteredNow.value

\* The outcome of the pass of a call with every event evaluated against
\* the one instant n.
passAtOneNow(n) ==
    computeFilteredEvents(call.args.events, call.args.filters, n,
                          2 * Len(call.args.events), call.args.zone)

\* The outcome of a pass is that of the pass at the one instant n.
seesOnly(n) ==
    /\ call.ret.threw = passAtOneNow(n).threw
    /\ call.ret.value = passAtOneNow(n).value

\* C24, as the specification states it: filtering is deterministic given
\* a fixed now, and every event of one pass is evaluated against the same
\* now: the clock is not read with another value between the events of
\* the pass, so what a pass returns is what the pipeline returns at one
\* instant, the one at which the pass started or the one at which it
\* ended.
C24_OnePassSeesOneNow ==
    call.fn = "filteredEvents" =>
        seesOnly(call.ret.at) \/ seesOnly(call.ret.at + 1)

\* What does hold: a pass during which the clock happens to stand still
\* returns what the pipeline returns at that instant.
passAtStandingClockSeesOneNow ==
    atFixedNow => seesOnly(call.ret.at)

\* The clock passes midnight between the two events of a pass for
\* 'today': of two copies of one event the first is kept and the second
\* is dropped.
midnightBetweenTwoEvents ==
    /\ call.fn = "filteredEvents"
    /\ call.args.events = <<HomeGame, HomeGame>>
    /\ call.args.filters.dateRange = "today"
    /\ call.ret.tickAfter = 2
    /\ ~call.ret.threw
    /\ call.ret.value = <<HomeGame>>

\* C25, as the specification states it: the category predicate tolerates
\* minor label drift: with the category 'Science & Tech' selected, an
\* event whose only tag is 'Science and Technology' passes it.
C25_ScienceAndTechnologyPassesScienceAndTech ==
    (/\ call.fn = "matchesCategory"
     /\ call.args.category = Str("Science & Tech")
     /\ call.args.event.tags = <<Str("Science and Technology")>>) =>
        call.ret = TRUE

\* What does hold: under 'Science & Tech' the events that pass are those
\* with a tag in which 'science & tech' is written out, in any case; the
\* looser category 'Science' passes the tag 'Science and Technology'.
scienceAndTechPassesOnlyItsOwnLabel ==
    call.fn = "matchesCategory" =>
        /\ call.args.category = Str("Science & Tech") =>
               call.ret =
                   \E tag \in tagsOf(call.args.event) :
                       occursIn(Str("science & tech"), lowered(tag))
        /\ (/\ call.args.category = Str("Science")
            /\ call.args.event = EthicsTalk) => call.ret = TRUE

\* The allowlisted substrings other than 'cal '.
otherLocations == Range(BERKELEY_LOCATIONS) \ {Str("cal ")}

\* 'cal ' occurs in text only as the end of a longer word.
calOnlyInsideAWord(text) ==
    /\ occursIn(Str("cal "), text)
    /\ \A i \in 0..(Len(text) - 4) :
           (SubSeq(text, i + 1, i + 4) = Str("cal ")) =>
               (i > 0 /\ text[i] \in WordChars)

\* C26, as the specification states it: the entry 'cal ' does not match
\* unrelated words: a sports event whose location has the letters 'cal'
\* only as part of another word and has no other allowlisted substring
\* ('Local Arena, Palo Alto') is not classified as a home game.
C26_CalDoesNotMatchInsideAWord ==
    (/\ call.fn = "isHomeGame"
     /\ isSportsEvent(call.args.event)
     /\ calOnlyInsideAWord(lowered(call.args.event.location))
     /\ \A loc \in otherLocations :
            ~occursIn(loc, lowered(call.args.event.location))) =>
        call.ret = Return(FALSE)

\* The club match at 'Local Arena, Palo Alto' is classified as a home
\* game.
localArenaIsAHomeGame ==
    /\ call.fn = "isHomeGame"
    /\ call.args.event = LocalArena
    /\ call.ret = Return(TRUE)

\* C29: at most one load of the batch is in flight at any time: a load is
\* started only from IDLE (on mount) or from ERROR (Retry), never while
\* one is in flight or after SUCCESS, so no two completions race to set
\* the batch; a change of the filters while a load is pending leaves the
\* load and what it will yield alone, and the completion of a load, which
\* yields a document whatever the filters are, leaves the filters alone.
C29_AtMostOneLoadInFlight ==
    /\ [](fetch <= 1)
    /\ [](loadInFlight <=> loading = "LOADING")
    /\ [][/\ (fetch' > fetch) =>
                 (loading \in {"IDLE", "ERROR"} /\ ~loadInFlight)
          /\ (loadInFlight /\ filters' # filters) =>
                 /\ fetch' = fetch
                 /\ loading' = loading
                 /\ UNCHANGED loadedTriple
          /\ (fetch' < fetch) =>
                 /\ filters' = filters
                 /\ ~loadInFlight'
                 /\ \/ loading' = "ERROR" /\ UNCHANGED loadedTriple
                    \/ /\ loading' = "SUCCESS"
                       /\ allEvents' \in
                              {fetchEventsFromGemini(document, now).events :
                                   document \in SnapshotPool}]_vars

\* C29's case: while the one load is pending the user has typed a query
\* and picked a date range.
C29_Witness ==
    /\ loading = "LOADING"
    /\ fetch = 1
    /\ filters.searchQuery = Str("ai")
    /\ filters.dateRange = "week"
    /\ allEvents = <<>>

\* The dateRange values of the type that have no evaluator.
ReservedDateRanges == {"month", "weekend"}

\* C30: for the reserved dateRange values 'month' and 'weekend' the date
\* predicate applies no restriction: it passes every date, and the
\* pipeline returns what it returns for 'upcoming' with the same batch,
\* category and search query.
C30_ReservedRangesFilterLikeUpcoming ==
    /\ (/\ call.fn = "matchesDate"
        /\ call.args.dateRange \in ReservedDateRanges) => call.ret = TRUE
    /\ (/\ call.fn = "filteredEvents"
        /\ call.args.filters.dateRange \in ReservedDateRanges) =>
           LET upcoming ==
                   computeFilteredEvents(
                       call.args.events,
                       [call.args.filters EXCEPT !.dateRange = "upcoming"],
                       call.ret.at, call.ret.tickAfter, call.args.zone)
           IN  /\ call.ret.threw = upcoming.threw
               /\ call.ret.value = upcoming.value

\* C30's case: under 'month' the pass keeps an event whose date does not
\* parse and the event after it.
C30_Witness ==
    /\ call.fn = "filteredEvents"
    /\ call.args.filters.dateRange = "month"
    /\ call.args.filters.searchQuery = Str("")
    /\ call.args.events = UndatedBatch
    /\ unparsable(call.args.events[1].date)
    /\ ~call.ret.threw
    /\ call.ret.value = UndatedBatch

\* Worker w is between taking an index and assigning its slot.
checking(w) == workers[w].pc \in {"head", "get"}

\* Slot i of results, counted from 0, has been assigned.
filled(i) == results[i + 1] # Hole

\* What replaces an event whose URL check failed: the event with its url,
\* and nothing else, set to the first priority URL on the host of its
\* url, or to https://events.berkeley.edu/ when there is none or the url
\* has no host.
replacementOf(event) ==
    LET onHost == {k \in 1..Len(prioritySourceUrls) :
                       /\ "url" \notin event.nulls
                       /\ ~hostnameOf(event.url).threw
                       /\ hostnameOf(prioritySourceUrls[k]) =
                              hostnameOf(event.url)}
    IN  [event EXCEPT
             !.url = IF onHost = {}
                     THEN Str("https://events.berkeley.edu/")
                     ELSE prioritySourceUrls[Min(onHost)],
             !.nulls = @ \ {"url"}]

\* C27: under every interleaving of the workers each index is claimed by
\* exactly one worker: no two workers hold the same index, the indices
\* taken so far are those held and those whose slot is filled, and every
\* assignment fills another slot (verified + replaced is the number of
\* filled slots, so none is written twice); results has the length of
\* events, a filled results[i] is events[i] when its check succeeded and
\* events[i] with only the url replaced by the fallback when it failed,
\* and on return no slot is unfilled: the input order is preserved.
C27_EachIndexClaimedOnceAndSlotsInOrder ==
    verifyPc \in {"awaiting", "returned"} =>
        /\ Len(results) = Len(toVerify)
        /\ \A v, w \in 1..Len(workers) :
               (v # w /\ checking(v) /\ checking(w)) =>
                   workers[v].i # workers[w].i
        /\ \A w \in 1..Len(workers) :
               checking(w) => workers[w].i < Len(toVerify)
        /\ \A i \in 0..(Len(toVerify) - 1) :
               /\ filled(i) <=>
                      /\ i < index
                      /\ ~\E w \in 1..Len(workers) :
                             checking(w) /\ workers[w].i = i
               /\ filled(i) =>
                      results[i + 1] \in {toVerify[i + 1],
                                          replacementOf(toVerify[i + 1])}
        /\ verified =
               Cardinality({i \in 0..(Len(toVerify) - 1) :
                                results[i + 1] = toVerify[i + 1]})
        /\ replaced =
               Cardinality({i \in 0..(Len(toVerify) - 1) :
                                filled(i) /\ results[i + 1] # toVerify[i + 1]})
        /\ verifyPc = "returned" =>
               \A i \in 0..(Len(toVerify) - 1) : filled(i)

\* C27's case: verifyEventUrls has returned for three events and two
\* workers; the first URL checked out, the second was replaced by the
\* fallback of its host and the third, on a host without one, by the
\* default.
C27_Witness ==
    /\ verifyPc = "returned"
    /\ Len(toVerify) = 3
    /\ Len(workers) = 2
    /\ results[1] = toVerify[1]
    /\ results[2] = withUrl(toVerify[2], Str("https://calbears.com/calendar"))
    /\ results[3] = withUrl(toVerify[3], Str("https://events.berkeley.edu/"))
    /\ verified = 1
    /\ replaced = 2

\* C28: verifyEventUrls terminates for every list, every URL check
\* resolving in the end: every worker returns and the function returns;
\* at completion verified + replaced is the number of input events; for
\* the empty list no worker is started and the result is empty.
C28_VerifyTerminates ==
    /\ <>(verifyPc = "returned")
    /\ [](verifyPc = "returned" =>
              /\ \A w \in 1..Len(workers) : workers[w].pc = "returned"
              /\ verified + replaced = Len(toVerify))
    /\ []((toVerify = <<>> /\ verifyPc # "start") =>
              (workers = <<>> /\ results = <<>>))

\* C28's case: the function has returned for three events, each of the
\* two workers having taken an index past the end of the list.
C28_Witness ==
    /\ verifyPc = "returned"
    /\ Len(toVerify) = 3
    /\ \A w \in 1..Len(workers) : workers[w].pc = "returned"
    /\ index = Len(toVerify) + Len(workers)
    /\ verified + replaced = 3

====
